---- MODULE Spec2Model ----
(***************************************************************************)
(* Query-processing pipeline of llmbackend1: SearchPipeline.process_query  *)
(* (app/core/pipeline.py) together with the cost ledger                    *)
(* DatabaseCostTracker (app/services/cost_tracker.py) and the daily        *)
(* aggregate kept by StatsRepository (app/database/repositories.py).       *)
(*                                                                         *)
(* Each in-flight request is a coroutine of one asyncio event loop: an     *)
(* action is the code a request runs between two awaits that matter, and   *)
(* requests interleave at those awaits.  Money is counted in thousandths   *)
(* of a dollar, so the price table 0.005 / 0.02 / 0.01 / 0.0 USD is        *)
(* 5 / 20 / 10 / 0 and the daily budget of 100.0 USD is 100000.            *)
(*                                                                         *)
(* Collaborator calls are inputs of the pipeline: each awaited call        *)
(* returns or raises, and a stage run under _run_with_timeout may also     *)
(* exceed its deadline.  Two groups of calls have no callee in the tree:   *)
(* CacheService has no get_response / store_response method (only module   *)
(* functions of that name) and services/database_logger.DatabaseLogger has *)
(* no update_search_response / log_cost_record, so in this tree those      *)
(* calls raise AttributeError.  The model keeps "raise" among their        *)
(* outcomes and, so that the code after them is exercised at all, also     *)
(* lets them return as the interface the callers are written against.     *)
(***************************************************************************)
EXTENDS Integers, Sequences, FiniteSets, TLC

\* ---------------------------------------------------------------- bounds
NumReq == 2
MaxEnhanced == 2
MaxUrls == 1

Reqs == 1..NumReq

\* ------------------------------------------------------- program constants
cost_rates ==
    [brave_search |-> 5, serpapi_search |-> 20, zenrows_request |-> 10, llm_token |-> 0]

daily_budget == 100000

MinTokens == 100

TheQuery == "q"
Variations == <<"v1", "v2", "v3", "v4">>

\* enhance() returns the original query followed by deduplicated variations,
\* at most five in all
EnhancedLists ==
    { <<TheQuery>> \o SubSeq(Variations, 1, n - 1) : n \in 1..MaxEnhanced }

\* ------------------------------------------------------------ ledger data
NoCost ==
    [status |-> "none", brave_searches |-> 0, serpapi_searches |-> 0,
     zenrows_requests |-> 0, llm_tokens |-> 0, total_cost |-> 0]

RequestCost ==
    [status |-> "active", brave_searches |-> 0, serpapi_searches |-> 0,
     zenrows_requests |-> 0, llm_tokens |-> 0, total_cost |-> 0]

NoResponse == [answer |-> "none", sources |-> 0, cached |-> FALSE, cost_estimate |-> 0]

NoRow == [present |-> FALSE, total_cost |-> 0]

Sites ==
    {"session", "lookup", "hit_update", "enhance", "search", "fetch", "analyze",
     "update", "logcost", "store"}

Stages == {"enhance", "search", "fetch", "analyze"}

VARIABLES
    pc,          \* where each request's process_query coroutine stands
    after,       \* what follows the ledger finalization in progress
    err,         \* the exception that reached process_query's except clauses
    outcome,     \* what process_query gave its caller
    calls,       \* outcome of each awaited collaborator call, per request
    gate,        \* what is_budget_available saw for the request
    started,     \* start_request has run for the request
    active,      \* DatabaseCostTracker.active_requests
    costStore,   \* finalized RequestCost records (cost:request:<id>)
    finalizedBy, \* which ledger method finalized the request
    finals,      \* number of finalizations of the request
    folds,       \* number of daily-aggregate writes made for the request
    folded,      \* the aggregate value read and the value written for it
    dailyStats,  \* today's DailyStats row
    day0,        \* the day's total when the process started
    rd,          \* daily_stats as read by the request's _update_daily_totals
    respCache,   \* the final-answer cache entry for the query
    enhanced,    \* enhanced_queries
    results,     \* number of search results
    content,     \* number of ContentRecords
    resp         \* the Response being built / returned

\* the state of one CacheService and of the external store it talks to
VARIABLES
    memory_cache,   \* CacheService.memory_cache, in insertion order
    redis_store,    \* the external store: key -> encoded value and expiry
    redis_client,   \* CacheService.redis_client: "none" or "connected"
    redis_enabled,  \* CacheService.redis_enabled
    now,            \* the clock
    last            \* the cache operation just carried out and what it saw

VARIABLES
    ranked          \* the last call into the search aggregator and its answer

VARIABLES
    fanout,   \* the search_multiple call in progress: its provider tasks
    fetching,   \* the fetch_content call in progress: its per-URL tasks
    analyzer,   \* LLMAnalysisService and the analyze call in progress
    health,   \* SearchPipeline health state and the health_check call in progress
    reqlog   \* the search_requests table and the last logger or repository call

\* the services that are modelled one call at a time
auxVars == <<fanout, fetching, analyzer, health, reqlog>>

pipelineVars ==
    <<pc, after, err, outcome, calls, gate, started, active, costStore, finalizedBy,
      finals, folds, folded, dailyStats, day0, rd, respCache, enhanced, results,
      content, resp>>

serviceVars ==
    <<memory_cache, redis_store, redis_client, redis_enabled, now, last, ranked, auxVars>>

vars == <<pipelineVars, serviceVars>>

\* ---------------------------------------------------------- cache bounds
Capacity == 2
MaxTtl == 2
MaxTime == 3

\* one key more than the in-process tier can hold
Keys == 1..(Capacity + 1)
Ttls == 1..MaxTtl

\* cached values: a JSON-native value (dict, list, str) or an object such as a
\* SearchResponse
CacheValues == {[form |-> "json", id |-> 1], [form |-> "object", id |-> 2]}

None == [form |-> "None", id |-> 0]

NoEntry == [value |-> None, expires |-> 0]

NoOp ==
    [op |-> "none", key |-> 0, value |-> None, result |-> None, ok |-> TRUE, size |-> 0,
     redis |-> "off", mem |-> "absent", stored |-> None]

\* no call into the search aggregator has been made
NoRanked ==
    [op |-> "none", queries |-> 0, max_results_per_query |-> 0, cache |-> "none",
     results |-> <<>>, max_results |-> 0, state |-> "none", final_results |-> <<>>]

\* no search_multiple call has been made
NoFanout ==
    [state |-> "idle", queries |-> 0, max_results_per_query |-> 0, cache |-> "none",
     tasks |-> <<>>, all_results |-> <<>>, final_results |-> <<>>]

\* no fetch_content call has been made
NoFetch ==
    [state |-> "idle", search_results |-> <<>>, max_urls |-> 0, cache |-> "none",
     tasks |-> <<>>, content_data |-> <<>>]

\* SearchResponse fields set by the analyzer; no response yet
NoAnalysis ==
    [answer |-> "none", length |-> 0, sources |-> <<>>, confidence |-> 0]

\* LLMAnalysisService.__init__ (is_available = None, last_availability_check
\* = 0, no _last_failed_time attribute, session = None: 0, the n-th
\* ClientSession created: n), no analyze call so far, and no request in its
\* retry loop
AnalyzerInit ==
    [is_available |-> "None", last_availability_check |-> 0, last_failed_time |-> -1,
     clock |-> 0, pc |-> "idle", content_data |-> 0, with_text |-> FALSE,
     probe |-> "none", available |-> FALSE, attempt |-> 0,
     reply |-> [kind |-> "none", length |-> 0], response |-> NoAnalysis,
     session |-> 0,
     inference |-> [r \in Reqs |-> [pc |-> "idle", attempt |-> 0, using |-> 0,
                                    closed_under |-> 0]]]

\* the components SearchPipeline.health_check probes, in the order of its
\* health_tasks dict
Components ==
    <<"query_enhancer", "search_engine", "content_fetcher", "llm_analyzer", "cache",
      "database">>

\* `current_time - self.last_health_check < 30`, in units of 15 s
health_cache_window == 2

\* SearchPipeline.__init__ (is_healthy = True, last_health_check = 0); the
\* clock stands at least a cache window after the epoch
HealthInit ==
    [is_healthy |-> TRUE, last_health_check |-> 0, clock |-> health_cache_window,
     pc |-> "idle", current_time |-> 0,
     checks |-> [i \in 1..Len(Components) |-> "none"],
     result |-> [overall |-> "none", cached |-> FALSE],
     round |-> "none"]

\* the request ids and queries the logger is called with
MaxRequestId == 3
RequestIds == 1..MaxRequestId
LoggedQueries == {"logger test query", "another query"}

\* an empty search_requests table and no logger call made yet
LoggerInit ==
    [search_requests |-> [r \in RequestIds |-> "absent"],
     call |-> [op |-> "none", request_id |-> 0, original_query |-> "",
               returned |-> "None"]]

\* CacheService.__init__, an empty external store, the clock at its origin
CacheServiceInit ==
    /\ memory_cache = <<>>
    /\ redis_store = [k \in Keys |-> NoEntry]
    /\ redis_client = "none"
    /\ redis_enabled = TRUE
    /\ now = 0
    /\ last = NoOp

\* ------------------------------------------------------------------ Init
\* the pipeline and its ledger before the first request
PipelineInit ==
    /\ pc = [r \in Reqs |-> "idle"]
    /\ after = [r \in Reqs |-> "none"]
    /\ err = [r \in Reqs |-> "none"]
    /\ outcome = [r \in Reqs |-> "none"]
    /\ calls = [r \in Reqs |-> [s \in Sites |-> "none"]]
    /\ gate = [r \in Reqs |-> [state |-> "none", total |-> 0]]
    /\ started = [r \in Reqs |-> FALSE]
    /\ active = [r \in Reqs |-> NoCost]
    /\ costStore = [r \in Reqs |-> NoCost]
    /\ finalizedBy = [r \in Reqs |-> "none"]
    /\ finals = [r \in Reqs |-> 0]
    /\ folds = [r \in Reqs |-> 0]
    /\ folded = [r \in Reqs |-> [base |-> 0, written |-> 0]]
    /\ dailyStats \in
         {NoRow} \cup
         {[present |-> TRUE, total_cost |-> t] : t \in {0, daily_budget - 30, daily_budget}}
    /\ day0 = dailyStats.total_cost
    /\ rd = [r \in Reqs |-> NoRow]
    /\ respCache = NoResponse
    /\ enhanced = [r \in Reqs |-> <<>>]
    /\ results = [r \in Reqs |-> 0]
    /\ content = [r \in Reqs |-> 0]
    /\ resp = [r \in Reqs |-> NoResponse]

\* the services modelled one call at a time, as constructed
AuxInit ==
    /\ fanout = NoFanout
    /\ fetching = NoFetch
    /\ analyzer = AnalyzerInit
    /\ health = HealthInit
    /\ reqlog = LoggerInit

Init ==
    /\ PipelineInit
    /\ CacheServiceInit
    /\ ranked = NoRanked
    /\ AuxInit


\* ------------------------------------------------------------ the ledger
\* `if request_id in self.active_requests`
InActive(act, r) == act[r].status # "none"

track_brave_search(act, r, n) ==
    IF InActive(act, r)
    THEN [act EXCEPT ![r].brave_searches = @ + n,
                     ![r].total_cost = @ + n * cost_rates.brave_search]
    ELSE act

\* a SerpApi charge booked on the Brave counter
track_on_brave_counter(act, r, n) ==
    IF InActive(act, r)
    THEN [act EXCEPT ![r].brave_searches = @ + n,
                     ![r].total_cost = @ + n * cost_rates.serpapi_search]
    ELSE act

track_serpapi_search(act, r, n) ==
    IF InActive(act, r)
    THEN [act EXCEPT ![r].serpapi_searches = @ + n,
                     ![r].total_cost = @ + n * cost_rates.serpapi_search]
    ELSE act

track_zenrows_request(act, r, n) ==
    IF InActive(act, r)
    THEN [act EXCEPT ![r].zenrows_requests = @ + n,
                     ![r].total_cost = @ + n * cost_rates.zenrows_request]
    ELSE act

track_llm_usage(act, r, n) ==
    IF InActive(act, r)
    THEN [act EXCEPT ![r].llm_tokens = @ + n,
                     ![r].total_cost = @ + n * cost_rates.llm_token]
    ELSE act

\* get_daily_stats()["total_cost"]: the row's total; 0.0 when there is no row
\* or when the read fails and the cache fallback has nothing for the day
get_daily_stats(dbok, row) == IF dbok /\ row.present THEN row.total_cost ELSE 0

\* a gate that still admits a request when the total equals the budget
budget_not_passed(total) == total <= daily_budget

is_budget_available(total) == total < daily_budget

\* end_request sets "completed", handle_error sets "error"
finalize_status(how) == IF how = "handle_error" THEN "error" ELSE "completed"

\* an update that leaves the day's total as it was read
daily_total_kept(row, rc) == IF row.present THEN row.total_cost ELSE 0

\* _update_daily_totals: the total handed to create_or_update_daily_stats
daily_total_after(row, rc) ==
    IF row.present THEN row.total_cost + rc.total_cost ELSE rc.total_cost

\* StatsRepository.create_or_update_daily_stats: set the row's total, or add the row
create_or_update_daily_stats(row, total) == [present |-> TRUE, total_cost |-> total]

\* a finalization that leaves the record among the active requests
keep_active(act, r) == act

\* `del self.active_requests[request_id]`
remove_active(act, r) == [act EXCEPT ![r] = NoCost]

\* ------------------------------------------------- the stage wrapper
\* _run_with_timeout: the stage's value, or the exception it lets through
RunWithTimeout(o) ==
    CASE o = "timeout" -> "TimeoutError"
      [] o = "raise" -> "Exception"
      [] OTHER -> "return"

\* the two except clauses of process_query: which PipelineException is raised
ErrorFor(e) == IF e = "TimeoutError" THEN "timed_out" ELSE "failed"

\* `search_count = len(enhanced_queries) if enhanced_queries else 1`
search_count(qs) == IF Len(qs) > 0 THEN Len(qs) ELSE 1

Min(a, b) == IF a < b THEN a ELSE b

\* an exception leaves the try block of process_query
Raise(r, site, o, e) ==
    /\ pc' = [pc EXCEPT ![r] = "except"]
    /\ err' = [err EXCEPT ![r] = e]
    /\ calls' = [calls EXCEPT ![r][site] = o]

\* What the awaited collaborator calls of process_query can give back.  The
\* cache object has no get_response / store_response and the imported
\* DatabaseLogger no update_search_response / log_cost_record, so "raise" is
\* what these calls do in the tree; the other outcomes are those of the
\* interface process_query is written against.
get_response == {"hit", "miss", "raise"}
store_response == {"return", "raise"}
update_search_response == {"return", "raise"}
log_cost_record == {"return", "raise"}

ledgerVars == <<active, costStore, finalizedBy, finals, folds, folded, dailyStats, rd>>
stageVars == <<enhanced, results, content, resp>>

\* ------------------------------------------------------- process_query
\* the budget check at entry; a rejection is raised inside the try block
BudgetGate(r) ==
    /\ pc[r] = "idle"
    /\ IF r = 1 THEN TRUE ELSE pc[r - 1] # "idle"
    /\ \E dbok \in BOOLEAN :
         /\ gate' = [gate EXCEPT ![r] =
                       [state |-> IF dbok THEN "read" ELSE "fallback",
                        total |-> dailyStats.total_cost]]
         /\ IF is_budget_available(get_daily_stats(dbok, dailyStats))
            THEN /\ pc' = [pc EXCEPT ![r] = "open"]
                 /\ UNCHANGED err
            ELSE /\ pc' = [pc EXCEPT ![r] = "except"]
                 /\ err' = [err EXCEPT ![r] = "BudgetExceeded"]
    /\ UNCHANGED <<after, outcome, calls, started, ledgerVars, day0, serviceVars, respCache, stageVars>>

\* db_manager.get_session(), log_search_request (returns None), start_request
OpenSession(r) ==
    /\ pc[r] = "open"
    /\ \E ok \in BOOLEAN :
         IF ok
         THEN /\ pc' = [pc EXCEPT ![r] = "lookup"]
              /\ calls' = [calls EXCEPT ![r]["session"] = "return"]
              /\ started' = [started EXCEPT ![r] = TRUE]
              /\ active' = [active EXCEPT ![r] = RequestCost]
              /\ UNCHANGED err
         ELSE /\ Raise(r, "session", "raise", "Exception")
              /\ UNCHANGED <<started, active>>
    /\ UNCHANGED <<after, outcome, gate, costStore, finalizedBy, finals, folds, folded,
                   dailyStats, day0, serviceVars, rd, respCache, stageVars>>

\* Stage 1: cached_response = await self.cache.get_response(query)
CacheLookup(r) ==
    /\ pc[r] = "lookup"
    /\ \E o \in get_response :
         CASE o = "hit" ->
                /\ respCache # NoResponse
                /\ pc' = [pc EXCEPT ![r] = "hit_update"]
                /\ calls' = [calls EXCEPT ![r]["lookup"] = o]
                /\ resp' = [resp EXCEPT ![r] = [respCache EXCEPT !.cached = TRUE]]
                /\ UNCHANGED err
           [] o = "miss" ->
                /\ pc' = [pc EXCEPT ![r] = "enhance"]
                /\ calls' = [calls EXCEPT ![r]["lookup"] = o]
                /\ UNCHANGED <<err, resp>>
           [] OTHER ->
                /\ Raise(r, "lookup", o, "Exception")
                /\ UNCHANGED resp
    /\ UNCHANGED <<after, outcome, gate, started, ledgerVars, day0, serviceVars, respCache,
                   enhanced, results, content>>

\* cache hit: update_search_response, then end_request, then return
CacheHitUpdate(r) ==
    /\ pc[r] = "hit_update"
    /\ \E o \in update_search_response :
         IF o = "return"
         THEN /\ pc' = [pc EXCEPT ![r] = "fin_read"]
              /\ after' = [after EXCEPT ![r] = "return_cached"]
              /\ calls' = [calls EXCEPT ![r]["hit_update"] = o]
              /\ UNCHANGED err
         ELSE /\ Raise(r, "hit_update", o, "Exception")
              /\ UNCHANGED after
    /\ UNCHANGED <<outcome, gate, started, ledgerVars, day0, serviceVars, respCache, stageVars>>

\* Stage 2: enhanced_queries = _run_with_timeout(enhance(query), 5.0)
Enhance(r) ==
    /\ pc[r] = "enhance"
    /\ \E o \in {"return", "raise", "timeout"} :
         IF RunWithTimeout(o) = "return"
         THEN /\ \E qs \in EnhancedLists : enhanced' = [enhanced EXCEPT ![r] = qs]
              /\ pc' = [pc EXCEPT ![r] = "search"]
              /\ calls' = [calls EXCEPT ![r]["enhance"] = o]
              /\ UNCHANGED err
         ELSE /\ Raise(r, "enhance", o, RunWithTimeout(o))
              /\ UNCHANGED enhanced
    /\ UNCHANGED <<after, outcome, gate, started, ledgerVars, day0, serviceVars, respCache,
                   results, content, resp>>

\* Stage 3: search_multiple under a 15 s deadline, then both search charges
Search(r) ==
    /\ pc[r] = "search"
    /\ \E o \in {"return", "raise", "timeout"} :
         IF RunWithTimeout(o) = "return"
         THEN /\ \E n \in 0..MaxUrls : results' = [results EXCEPT ![r] = n]
              /\ active' = track_serpapi_search(
                               track_brave_search(active, r, search_count(enhanced[r])),
                               r, search_count(enhanced[r]))
              /\ pc' = [pc EXCEPT ![r] = "fetch"]
              /\ calls' = [calls EXCEPT ![r]["search"] = o]
              /\ UNCHANGED err
         ELSE /\ Raise(r, "search", o, RunWithTimeout(o))
              /\ UNCHANGED <<results, active>>
    /\ UNCHANGED <<after, outcome, gate, started, costStore, finalizedBy, finals, folds,
                   folded, dailyStats, day0, serviceVars, rd, respCache, enhanced, content, resp>>

\* Stage 4: fetch_content under a 20 s deadline, then the ZenRows charge for
\* the ContentRecords with a positive fetch_time (every fetched one)
Fetch(r) ==
    /\ pc[r] = "fetch"
    /\ \E o \in {"return", "raise", "timeout"} :
         IF RunWithTimeout(o) = "return"
         THEN /\ \E k \in 0..Min(results[r], MaxUrls) :
                   /\ content' = [content EXCEPT ![r] = k]
                   /\ active' = IF k > 0 THEN track_zenrows_request(active, r, k)
                                ELSE active
              /\ pc' = [pc EXCEPT ![r] = "analyze"]
              /\ calls' = [calls EXCEPT ![r]["fetch"] = o]
              /\ UNCHANGED err
         ELSE /\ Raise(r, "fetch", o, RunWithTimeout(o))
              /\ UNCHANGED <<content, active>>
    /\ UNCHANGED <<after, outcome, gate, started, costStore, finalizedBy, finals, folds,
                   folded, dailyStats, day0, serviceVars, rd, respCache, enhanced, results, resp>>

\* LLMAnalysisService.analyze catches its own failures: with no content it
\* answers with the apology, otherwise with the model's answer or, after an
\* internal failure, with the summary built from the content
AnswerKinds(k) == IF k = 0 THEN {"apology"} ELSE {"llm", "summary"}

\* Stage 5: analyze under a 30 s deadline, the token charge, then end_request
Analyze(r) ==
    /\ pc[r] = "analyze"
    /\ \E o \in {"return", "timeout"} :
         IF RunWithTimeout(o) = "return"
         THEN /\ \E a \in AnswerKinds(content[r]) :
                   resp' = [resp EXCEPT ![r] =
                              [answer |-> a, sources |-> content[r], cached |-> FALSE,
                               cost_estimate |-> 0]]
              /\ active' = track_llm_usage(active, r, MinTokens)
              /\ pc' = [pc EXCEPT ![r] = "fin_read"]
              /\ after' = [after EXCEPT ![r] = "post_end"]
              /\ calls' = [calls EXCEPT ![r]["analyze"] = o]
              /\ UNCHANGED err
         ELSE /\ Raise(r, "analyze", o, RunWithTimeout(o))
              /\ UNCHANGED <<resp, active, after>>
    /\ UNCHANGED <<outcome, gate, started, costStore, finalizedBy, finals, folds,
                   folded, dailyStats, day0, serviceVars, rd, respCache, enhanced, results, content>>

\* which ledger method is finalizing: the except clauses call handle_error
Finalizer(r) == IF after[r] = "raise" THEN "handle_error" ELSE "end_request"

\* end_request / handle_error up to the read in _update_daily_totals:
\* set the status, then `daily_stats = await stats_repo.get_daily_stats(today)`
LedgerRead(r) ==
    /\ pc[r] = "fin_read"
    /\ InActive(active, r)
    /\ active' = [active EXCEPT ![r].status = finalize_status(Finalizer(r))]
    /\ finalizedBy' = [finalizedBy EXCEPT ![r] = Finalizer(r)]
    /\ finals' = [finals EXCEPT ![r] = @ + 1]
    /\ rd' = [rd EXCEPT ![r] = dailyStats]
    /\ pc' = [pc EXCEPT ![r] = "fin_write"]
    /\ UNCHANGED <<after, err, outcome, calls, gate, started, costStore, folds, folded,
                   dailyStats, day0, serviceVars, respCache, stageVars>>

\* the rest of end_request / handle_error: create_or_update_daily_stats and
\* commit, _store_request_cost, `del active_requests[request_id]`; then
\* process_query goes on from where it called the ledger
LedgerWrite(r) ==
    /\ pc[r] = "fin_write"
    /\ dailyStats' = create_or_update_daily_stats(dailyStats,
                                                  daily_total_after(rd[r], active[r]))
    /\ folds' = [folds EXCEPT ![r] = @ + 1]
    /\ folded' = [folded EXCEPT ![r] =
                    [base |-> get_daily_stats(TRUE, rd[r]),
                     written |-> daily_total_after(rd[r], active[r])]]
    /\ costStore' = [costStore EXCEPT ![r] = active[r]]
    /\ active' = remove_active(active, r)
    /\ CASE after[r] = "return_cached" ->
              /\ pc' = [pc EXCEPT ![r] = "done"]
              /\ outcome' = [outcome EXCEPT ![r] = "response"]
              /\ UNCHANGED resp
         [] after[r] = "post_end" ->
              /\ pc' = [pc EXCEPT ![r] = "update"]
              /\ resp' = [resp EXCEPT ![r].cost_estimate = active[r].total_cost]
              /\ UNCHANGED outcome
         [] OTHER ->
              /\ pc' = [pc EXCEPT ![r] = "done"]
              /\ outcome' = [outcome EXCEPT ![r] = ErrorFor(err[r])]
              /\ UNCHANGED resp
    /\ UNCHANGED <<after, err, calls, gate, started, finalizedBy, finals, day0, serviceVars, rd,
                   respCache, enhanced, results, content>>

\* db_logger.update_search_response(...) after end_request; a failure here
\* reaches the except clauses
UpdateSearchResponse(r) ==
    /\ pc[r] = "update"
    /\ \E o \in update_search_response :
         IF o = "return"
         THEN /\ pc' = [pc EXCEPT ![r] = "logcost"]
              /\ calls' = [calls EXCEPT ![r]["update"] = o]
              /\ UNCHANGED err
         ELSE Raise(r, "update", o, "Exception")
    /\ UNCHANGED <<after, outcome, gate, started, ledgerVars, day0, serviceVars, respCache, stageVars>>

\* the cost breakdown and db_logger.log_cost_record(...)
LogCostRecord(r) ==
    /\ pc[r] = "logcost"
    /\ \E o \in log_cost_record :
         IF o = "return"
         THEN /\ pc' = [pc EXCEPT ![r] = "store"]
              /\ calls' = [calls EXCEPT ![r]["logcost"] = o]
              /\ UNCHANGED err
         ELSE Raise(r, "logcost", o, "Exception")
    /\ UNCHANGED <<after, outcome, gate, started, ledgerVars, day0, serviceVars, respCache, stageVars>>

\* Stage 6: await self.cache.store_response(query, final_response); return
StoreResponse(r) ==
    /\ pc[r] = "store"
    /\ \E o \in store_response :
         IF o = "return"
         THEN /\ respCache' = resp[r]
              /\ pc' = [pc EXCEPT ![r] = "done"]
              /\ outcome' = [outcome EXCEPT ![r] = "response"]
              /\ calls' = [calls EXCEPT ![r]["store"] = o]
              /\ UNCHANGED err
         ELSE /\ Raise(r, "store", o, "Exception")
              /\ UNCHANGED <<respCache, outcome>>
    /\ UNCHANGED <<after, gate, started, ledgerVars, day0, serviceVars, stageVars>>

\* the except clauses: mark_request_failed (its own failure is swallowed),
\* handle_error, then raise PipelineException
HandleException(r) ==
    /\ pc[r] = "except"
    /\ IF InActive(active, r)
       THEN /\ pc' = [pc EXCEPT ![r] = "fin_read"]
            /\ after' = [after EXCEPT ![r] = "raise"]
            /\ UNCHANGED outcome
       ELSE /\ pc' = [pc EXCEPT ![r] = "done"]
            /\ outcome' = [outcome EXCEPT ![r] = ErrorFor(err[r])]
            /\ UNCHANGED after
    /\ UNCHANGED <<err, calls, gate, started, ledgerVars, day0, serviceVars, respCache, stageVars>>

Next ==
    \E r \in Reqs :
        \/ BudgetGate(r)
        \/ OpenSession(r)
        \/ CacheLookup(r)
        \/ CacheHitUpdate(r)
        \/ Enhance(r)
        \/ Search(r)
        \/ Fetch(r)
        \/ Analyze(r)
        \/ LedgerRead(r)
        \/ LedgerWrite(r)
        \/ UpdateSearchResponse(r)
        \/ LogCostRecord(r)
        \/ StoreResponse(r)
        \/ HandleException(r)

Spec == Init /\ [][Next]_vars

\* ===================================================================
\* Properties
\* ===================================================================
\* the awaited call at site s of request r raised or ran out of time
FailedAt(r, s) == calls[r][s] \in {"raise", "timeout"}

\* an exception has left the try block of request r's process_query
Raised(r) ==
    \/ pc[r] = "except"
    \/ after[r] = "raise"
    \/ outcome[r] \in {"failed", "timed_out"}

\* price of the units a record holds
Billed(rc) ==
    rc.brave_searches * cost_rates.brave_search
    + rc.serpapi_searches * cost_rates.serpapi_search
    + rc.zenrows_requests * cost_rates.zenrows_request
    + rc.llm_tokens * cost_rates.llm_token

RECURSIVE SumCost(_)
SumCost(S) ==
    IF S = {} THEN 0
    ELSE LET r == CHOOSE x \in S : TRUE
         IN costStore[r].total_cost + SumCost(S \ {r})

\* C1: when the entry check reads a day's total that is at or above the
\* daily budget, the request is rejected with an error, no awaited stage or
\* collaborator call of the request is ever made, and the ledger never holds
\* a record for it (tracking is not started, nothing is finalized).
C1_BudgetGate ==
    \A r \in Reqs :
        (gate[r].state = "read" /\ gate[r].total >= daily_budget) =>
            /\ pc[r] \in {"except", "done"}
            /\ pc[r] = "done" => outcome[r] = "failed"
            /\ \A s \in Sites : calls[r][s] = "none"
            /\ ~started[r]
            /\ active[r] = NoCost
            /\ costStore[r] = NoCost
            /\ finals[r] = 0 /\ folds[r] = 0

\* a request rejected at the gate after earlier requests spent the day's
\* total up to the budget
C1_Witness ==
    \E r \in Reqs :
        /\ day0 < daily_budget
        /\ gate[r].state = "read" /\ gate[r].total >= daily_budget
        /\ pc[r] = "done" /\ outcome[r] = "failed"

\* C2: whatever stage (enhancement, search, extraction, analysis) fails or
\* times out, process_query does not raise but returns a Response, and a
\* returned Response has an answer whenever a ContentRecord was produced.
C2_FallbackCompleteness ==
    \A r \in Reqs :
        /\ (\E s \in Stages : FailedAt(r, s)) => ~Raised(r)
        /\ (outcome[r] = "response" /\ content[r] >= 1) => resp[r].answer # "none"

\* C3: a request whose final-answer lookup hit returns the cached Response
\* marked cached, runs no stage, and has its ledger record finalized as
\* completed with zero units.
C3_CacheHit ==
    \A r \in Reqs :
        calls[r]["lookup"] = "hit" =>
            /\ ~Raised(r)
            /\ \A s \in Stages : calls[r][s] = "none"
            /\ pc[r] = "done" =>
                 /\ outcome[r] = "response"
                 /\ resp[r].cached
                 /\ costStore[r].status = "completed"
                 /\ Billed(costStore[r]) = 0 /\ costStore[r].total_cost = 0

\* C4: when the analysis stage runs out of its stage time, process_query
\* does not raise and the Response it returns carries the summary built
\* from the ContentRecords.
C4_AnalysisFallback ==
    \A r \in Reqs :
        FailedAt(r, "analyze") =>
            /\ ~Raised(r)
            /\ pc[r] = "done" => (outcome[r] = "response" /\ resp[r].answer = "summary")

\* C5: when enhancement fails or times out the pipeline goes on with the
\* list [original_query] and process_query does not raise.
C5_EnhancementFallback ==
    \A r \in Reqs :
        FailedAt(r, "enhance") => (enhanced[r] = <<TheQuery>> /\ ~Raised(r))

\* C6: when the search stage fails or times out the pipeline goes on with
\* no results and process_query returns a Response, not an error.
C6_SearchFallback ==
    \A r \in Reqs :
        FailedAt(r, "search") =>
            /\ ~Raised(r)
            /\ results[r] = 0
            /\ pc[r] = "done" => outcome[r] = "response"

\* C7: a failed final-answer lookup counts as a miss and a failed final
\* store still lets the computed Response be returned: neither failure
\* leaves process_query as an exception.
C7_CacheFailureSwallowed ==
    \A r \in Reqs :
        /\ FailedAt(r, "lookup") => (~Raised(r) /\ pc[r] # "hit_update")
        /\ FailedAt(r, "store") => (~Raised(r) /\ (pc[r] = "done" => outcome[r] = "response"))

C9_NoLostUpdate ==
    (\A r \in Reqs : ~InActive(active, r)) =>
        dailyStats.total_cost = day0 + SumCost(Reqs)

C11_LedgerFailureSwallowed ==
    \A r \in Reqs :
        FailedAt(r, "logcost") =>
            /\ ~Raised(r)
            /\ pc[r] = "done" => outcome[r] = "response"

\* C12: the error a budget rejection gives the caller is of another kind
\* than the error given for an internal failure or for a timeout.
C12_BudgetErrorDistinct ==
    \A r, q \in Reqs :
        (/\ pc[r] = "done" /\ err[r] = "BudgetExceeded"
         /\ pc[q] = "done" /\ err[q] \in {"Exception", "TimeoutError"})
            => outcome[r] # outcome[q]

\* C35: for a request the ledger tracked, the stored RequestCost has status
\* completed exactly when process_query returned a Response, and status
\* error exactly when process_query raised.
C35_StatusMatchesOutcome ==
    \A r \in Reqs :
        (started[r] /\ pc[r] = "done") =>
            /\ costStore[r].status = "completed" <=> outcome[r] = "response"
            /\ costStore[r].status = "error" <=> outcome[r] \in {"failed", "timed_out"}

\* the units one track call may be given
TrackUnits == 1..(MaxEnhanced + 1)

\* the record of request r after a track call differs from the one before
\* in the one count named and in total_cost, and no other record changes
OneCountAdded(before, later, r, field, n) ==
    /\ later[r][field] = before[r][field] + n
    /\ \A f \in {"status", "brave_searches", "serpapi_searches", "zenrows_requests",
                  "llm_tokens"} \ {field} : later[r][f] = before[r][f]
    /\ \A q \in Reqs \ {r} : later[q] = before[q]

\* C40: while a request is active its total_cost is the sum over the
\* providers of the units tracked times the provider's rate, and a track
\* call adds the given units to one provider's count and to no other.
C40_LedgerArithmetic ==
    \A r \in Reqs :
        InActive(active, r) =>
            /\ active[r].total_cost = Billed(active[r])
            /\ \A n \in TrackUnits :
                   /\ OneCountAdded(active, track_brave_search(active, r, n), r,
                                    "brave_searches", n)
                   /\ OneCountAdded(active, track_serpapi_search(active, r, n), r,
                                    "serpapi_searches", n)
                   /\ OneCountAdded(active, track_zenrows_request(active, r, n), r,
                                    "zenrows_requests", n)
                   /\ OneCountAdded(active, track_llm_usage(active, r, n), r,
                                    "llm_tokens", n)

\* a request still active after its searches, its fetches and its tokens
\* were charged
C40_Witness ==
    \E r \in Reqs :
        /\ InActive(active, r)
        /\ active[r].brave_searches > 0 /\ active[r].serpapi_searches > 0
        /\ active[r].zenrows_requests > 0 /\ active[r].llm_tokens > 0
        /\ active[r].total_cost > 0

\* ===================================================================
\* CacheService (app/services/cache_service.py)
\* ===================================================================
\* json.loads(json.dumps(value, default=str)): a JSON-native value comes back
\* as it was; an object comes back as the text str() gives for it
json_round_trip(v) == IF v.form = "object" THEN [form |-> "text", id |-> v.id] ELSE v

\* index of key k in the in-process map, 0 when it is not there
Position(mc, k) ==
    IF \E i \in 1..Len(mc) : mc[i].key = k
    THEN CHOOSE i \in 1..Len(mc) : mc[i].key = k
    ELSE 0

\* `del self.memory_cache[key]`
memory_delete(mc, k) == SelectSeq(mc, LAMBDA e : e.key # k)

\* a set that makes room only once the map is over its capacity
evict_when_over(mc) == IF Len(mc) > Capacity THEN Tail(mc) ELSE mc

\* set, lines 95-98: drop the first-inserted entry when the map is full
evict_oldest(mc) == IF Len(mc) >= Capacity THEN Tail(mc) ELSE mc

\* a write that leaves the in-process map as it was
memory_kept(mc, k, v, exp) == mc

\* set, lines 95-103: make room, then `self.memory_cache[key] = {...}`
\* (a key already present keeps its place in the insertion order)
memory_set(mc, k, v, exp) ==
    LET m1 == evict_oldest(mc)
        i == Position(m1, k)
        e == [key |-> k, value |-> v, expires |-> exp]
    IN IF i > 0 THEN [m1 EXCEPT ![i] = e] ELSE Append(m1, e)

\* `datetime.now() < cache_entry['expires']`, and Redis' own expiry
Live(e, t) == e.value # None /\ t < e.expires

\* _get_redis_client, given whether the server answers: the client the
\* caller gets, and redis_enabled afterwards (a failed connect disables it)
ClientAfter(client, enabled, up) ==
    IF ~enabled THEN "none"
    ELSE IF client = "connected" \/ up THEN "connected" ELSE "none"

EnabledAfter(client, enabled, up) == enabled /\ (client = "connected" \/ up)

\* how a command sent to the external store ends for the caller
RedisCall(client, up) ==
    IF client = "none" THEN "off" ELSE IF up THEN "ok" ELSE "error"

\* state of key k in the in-process map at time t
MemState(mc, k, t) ==
    IF Position(mc, k) = 0 THEN "absent"
    ELSE IF t < mc[Position(mc, k)].expires THEN "live" ELSE "expired"

cacheFixed == <<pipelineVars, ranked, auxVars>>

\* CacheService.get(key)
CacheGet(k) ==
    \E up \in BOOLEAN :
        LET client == ClientAfter(redis_client, redis_enabled, up)
            call == RedisCall(client, up)
            rhit == call = "ok" /\ Live(redis_store[k], now)
            mem == MemState(memory_cache, k, now)
            result == IF rhit THEN redis_store[k].value
                      ELSE IF mem = "live" THEN memory_cache[Position(memory_cache, k)].value
                      ELSE None
        IN /\ redis_client' = client
           /\ redis_enabled' = EnabledAfter(redis_client, redis_enabled, up)
           /\ memory_cache' = IF ~rhit /\ mem = "expired"
                              THEN memory_delete(memory_cache, k)
                              ELSE memory_cache
           /\ last' = [op |-> "get", key |-> k, value |-> None, result |-> result,
                       ok |-> TRUE, size |-> Len(memory_cache),
                       redis |-> IF rhit THEN "hit" ELSE IF call = "ok" THEN "miss" ELSE call,
                       mem |-> mem,
                       stored |-> IF last.op = "set" /\ last.key = k
                                  THEN last.value ELSE None]
           /\ UNCHANGED <<redis_store, now, cacheFixed>>

\* CacheService.set(key, value, ttl)
CacheSet(k, v, ttl) ==
    \E up \in BOOLEAN :
        LET client == ClientAfter(redis_client, redis_enabled, up)
            call == RedisCall(client, up)
        IN /\ redis_client' = client
           /\ redis_enabled' = EnabledAfter(redis_client, redis_enabled, up)
           /\ redis_store' = IF call = "ok"
                             THEN [redis_store EXCEPT ![k] =
                                     [value |-> json_round_trip(v), expires |-> now + ttl]]
                             ELSE redis_store
           /\ memory_cache' = memory_set(memory_cache, k, v, now + ttl)
           /\ last' = [op |-> "set", key |-> k, value |-> v, result |-> None,
                       ok |-> TRUE, size |-> Len(memory_cache), redis |-> call,
                       mem |-> MemState(memory_cache, k, now), stored |-> None]
           /\ UNCHANGED <<now, cacheFixed>>

\* CacheService.delete(key)
CacheDelete(k) ==
    \E up \in BOOLEAN :
        LET client == ClientAfter(redis_client, redis_enabled, up)
            call == RedisCall(client, up)
        IN /\ redis_client' = client
           /\ redis_enabled' = EnabledAfter(redis_client, redis_enabled, up)
           /\ redis_store' = IF call = "ok" THEN [redis_store EXCEPT ![k] = NoEntry]
                             ELSE redis_store
           /\ memory_cache' = memory_delete(memory_cache, k)
           /\ last' = [op |-> "delete", key |-> k, value |-> None, result |-> None,
                       ok |-> TRUE, size |-> Len(memory_cache), redis |-> call,
                       mem |-> MemState(memory_cache, k, now), stored |-> None]
           /\ UNCHANGED <<now, cacheFixed>>

\* test_key = "health_check_test", a key no caller uses
test_key == 0

\* CacheService.health_check: set, get and delete of the test key, one after
\* the other, the test entry written for ten seconds; the statuses it can
\* return do not depend on the entries of other keys
CacheHealthCheck ==
    \E up \in BOOLEAN :
        LET client == ClientAfter(redis_client, redis_enabled, up)
            call == RedisCall(client, up)
            test_value == [form |-> "json", id |-> 0]
            written == memory_set(memory_cache, test_key, test_value, now + 1)
        IN /\ redis_client' = client
           /\ redis_enabled' = EnabledAfter(redis_client, redis_enabled, up)
           /\ memory_cache' = memory_delete(written, test_key)
           /\ last' = [op |-> "health_check", key |-> test_key, value |-> test_value,
                       result |-> written[Position(written, test_key)].value,
                       ok |-> TRUE, size |-> Len(memory_cache), redis |-> call,
                       mem |-> MemState(memory_cache, test_key, now), stored |-> None]
           /\ UNCHANGED <<now, redis_store, cacheFixed>>

\* CacheService.clear_pattern("*"): every key matches
CacheClear ==
    \E up \in BOOLEAN :
        LET client == ClientAfter(redis_client, redis_enabled, up)
            call == RedisCall(client, up)
        IN /\ redis_client' = client
           /\ redis_enabled' = EnabledAfter(redis_client, redis_enabled, up)
           /\ redis_store' = IF call = "ok" THEN [k \in Keys |-> NoEntry] ELSE redis_store
           /\ memory_cache' = <<>>
           /\ last' = [op |-> "clear", key |-> 0, value |-> None, result |-> None,
                       ok |-> TRUE, size |-> Len(memory_cache), redis |-> call, mem |-> "absent", stored |-> None]
           /\ UNCHANGED <<now, cacheFixed>>

\* the key the module functions build: f"final_response:{hash(query)}"
final_response_key == 1

\* module function store_response(query, response_data): a CacheService made
\* for this one call, so only what reaches the external store outlives it
store_response_fn(v) ==
    \E up \in BOOLEAN :
        LET call == RedisCall(ClientAfter("none", TRUE, up), up)
        IN /\ redis_store' = IF call = "ok"
                             THEN [redis_store EXCEPT ![final_response_key] =
                                     [value |-> json_round_trip(v), expires |-> now + MaxTtl]]
                             ELSE redis_store
           /\ last' = [op |-> "store_response", key |-> final_response_key, value |-> v,
                       result |-> None, ok |-> TRUE, size |-> Len(memory_cache), redis |-> call, mem |-> "absent",
                       stored |-> None]
           /\ UNCHANGED <<memory_cache, redis_client, redis_enabled, now, cacheFixed>>

\* module function get_response(query): again a CacheService of its own,
\* whose in-process map is empty
get_response_fn ==
    \E up \in BOOLEAN :
        LET call == RedisCall(ClientAfter("none", TRUE, up), up)
            rhit == call = "ok" /\ Live(redis_store[final_response_key], now)
        IN /\ last' = [op |-> "get_response", key |-> final_response_key, value |-> None,
                       result |-> IF rhit THEN redis_store[final_response_key].value
                                  ELSE None,
                       ok |-> TRUE, size |-> Len(memory_cache),
                       redis |-> IF rhit THEN "hit" ELSE IF call = "ok" THEN "miss" ELSE call,
                       mem |-> "absent",
                       stored |-> IF last.op = "store_response" THEN last.value ELSE None]
           /\ UNCHANGED <<memory_cache, redis_store, redis_client, redis_enabled, now,
                          cacheFixed>>

\* time passes; the external store drops what has expired by itself, the
\* in-process map keeps its expired entries until they are read
Tick ==
    /\ now < MaxTime
    /\ now' = now + 1
    /\ redis_store' = [k \in Keys |->
                         IF Live(redis_store[k], now + 1) THEN redis_store[k] ELSE NoEntry]
    /\ last' = NoOp
    /\ UNCHANGED <<memory_cache, redis_client, redis_enabled, cacheFixed>>

CacheInit == Init /\ dailyStats = NoRow

\* the operations of one CacheService and the module functions, with no
\* time passing between them
CacheNext ==
    \/ \E k \in Keys : CacheGet(k)
    \/ \E k \in Keys, v \in CacheValues : CacheSet(k, v, MaxTtl)
    \/ \E k \in Keys : CacheDelete(k)
    \/ CacheClear
    \/ CacheHealthCheck
    \/ \E v \in CacheValues : store_response_fn(v)
    \/ get_response_fn

CacheSpec == CacheInit /\ [][CacheNext]_vars

\* one key written with different lifetimes, read and deleted as time passes
ExpiryNext ==
    \/ CacheGet(final_response_key)
    \/ \E v \in CacheValues, ttl \in Ttls : CacheSet(final_response_key, v, ttl)
    \/ CacheDelete(final_response_key)
    \/ Tick

ExpirySpec == CacheInit /\ [][ExpiryNext]_vars

\* C13: a value read back under the key it was stored under by the
\* operation just before is the stored value (the cached flag is not part
\* of what the cache holds), whether or not the external store answers.
C13_RoundTrip ==
    (last.op \in {"get", "get_response"} /\ last.stored # None) =>
        last.result = last.stored

\* C14: a get that finds a live entry in the in-process map does not use
\* the external store, and a get answered by the external store alone
\* leaves the value in the in-process map.
C14_ReadPath ==
    last.op = "get" =>
        /\ last.mem = "live" => last.redis = "off"
        /\ (last.mem # "live" /\ last.redis = "hit") =>
               MemState(memory_cache, last.key, now) = "live"

\* C15: set reports success and leaves the value live in the in-process
\* map, with the lifetime asked for; it is also in the external store
\* whenever the external write went through.
C15_WritePath ==
    last.op = "set" =>
        /\ last.ok
        /\ MemState(memory_cache, last.key, now) = "live"
        /\ memory_cache[Position(memory_cache, last.key)].value = last.value
        /\ last.redis = "ok" =>
               redis_store[last.key].value = json_round_trip(last.value)

\* a set whose external write failed
C15_Witness ==
    /\ last.op = "set" /\ last.redis = "error" /\ last.ok
    /\ MemState(memory_cache, last.key, now) = "live"
    /\ redis_store[last.key] = NoEntry

\* C16: a get that follows a successful set of the same key, before the
\* entry expires, returns nothing written by an earlier set.
C16_WritesOverwrite ==
    (last.op = "get" /\ last.stored # None /\ last.result # None) =>
        last.result.id = last.stored.id

\* C17: a get of a key whose in-process entry has expired returns absent
\* and removes that entry from the in-process map.
C17_TtlExpiry ==
    (last.op = "get" /\ last.mem = "expired") =>
        /\ last.result = None
        /\ MemState(memory_cache, last.key, now) = "absent"

\* C18: the in-process map never holds more entries than its capacity (and
\* never two entries for one key).
C18_BoundedMemory ==
    /\ Len(memory_cache) <= Capacity
    /\ \A i, j \in 1..Len(memory_cache) :
           memory_cache[i].key = memory_cache[j].key => i = j

\* a new key was set while the map was full, and the map is still full
C18_Witness ==
    /\ last.op = "set" /\ last.mem = "absent" /\ last.size = Capacity
    /\ Len(memory_cache) = Capacity
    /\ Position(memory_cache, last.key) = Capacity

\* C38: a set on a key already in a full in-process map replaces that
\* entry's value and removes no other entry; a set of a new key into a full
\* map removes one entry, the first-inserted one.
C38_EvictOnlyOnOverflow ==
    [][(last'.op = "set" /\ Len(memory_cache) = Capacity) =>
          IF Position(memory_cache, last'.key) > 0
          THEN /\ \A i \in 1..Len(memory_cache) :
                      memory_cache[i].key # last'.key =>
                          \E j \in 1..Len(memory_cache') :
                              memory_cache'[j] = memory_cache[i]
               /\ Position(memory_cache', last'.key) > 0
               /\ memory_cache'[Position(memory_cache', last'.key)].value = last'.value
          ELSE /\ Len(memory_cache') = Capacity
               /\ Position(memory_cache', Head(memory_cache).key) = 0
               /\ \A i \in 2..Len(memory_cache) :
                      \E j \in 1..Len(memory_cache') :
                          memory_cache'[j] = memory_cache[i]
               /\ Position(memory_cache', last'.key) > 0]_vars

\* C39: after the cache health check every entry the in-process map held
\* before the call is still there with the same value and expiry, and the
\* test key is absent.
C39_HealthCheckKeepsData ==
    [][last'.op = "health_check" =>
          /\ \A i \in 1..Len(memory_cache) :
                 \E j \in 1..Len(memory_cache') : memory_cache'[j] = memory_cache[i]
          /\ Position(memory_cache', test_key) = 0]_vars

\* ====================================================== search aggregator
\* MultiSearchEngine: the ranking of what the providers returned.
NumUrls == 2
MaxScore == 2
MaxInput == 3

Engines == {"brave", "serpapi"}

\* SearchResult, reduced to the two fields the ranking reads; the score is
\* in halves of the [0, 1] range
SearchResult == [url : 1..NumUrls, relevance_score : 1..MaxScore]

ResultLists == UNION {[1..n -> SearchResult] : n \in 0..MaxInput}

\* a deduplication that keeps everything
keep_duplicates(all_results) == all_results

RECURSIVE unique_from(_, _, _, _)
\* lines 270-276: the loop over results with seen_urls and unique_results
unique_from(all_results, i, seen_urls, unique) ==
    IF i > Len(all_results) THEN unique
    ELSE IF all_results[i].url \notin seen_urls
         THEN unique_from(all_results, i + 1, seen_urls \cup {all_results[i].url},
                          Append(unique, all_results[i]))
         ELSE unique_from(all_results, i + 1, seen_urls, unique)

unique_results(all_results) ==
    unique_from(all_results, 1, {}, <<>>)

RECURSIVE insert_by_score(_, _)
\* one step of the stable descending sort: x goes behind every element whose
\* score is not lower (list.sort keeps equal keys in their original order,
\* also with reverse=True)
insert_by_score(sorted, x) ==
    IF sorted = <<>> THEN <<x>>
    ELSE IF Head(sorted).relevance_score >= x.relevance_score
         THEN <<Head(sorted)>> \o insert_by_score(Tail(sorted), x)
         ELSE <<x>> \o sorted

RECURSIVE sort_from(_, _, _)
sort_from(all_results, i, sorted) ==
    IF i > Len(all_results) THEN sorted
    ELSE sort_from(all_results, i + 1, insert_by_score(sorted, all_results[i]))

\* line 279: unique_results.sort(key=lambda x: x.relevance_score, reverse=True)
sort_by_relevance(all_results) ==
    sort_from(all_results, 1, <<>>)

\* line 282: unique_results[:max_results]
limit_to(all_results, max_results) ==
    SubSeq(all_results, 1, Min(Len(all_results), max_results))

\* _deduplicate_and_rank(results, max_results); the except branch needs a
\* url or a score that cannot be hashed or compared, which a SearchResult
\* (url: str, relevance_score: float) never holds
deduplicate_and_rank(all_results, max_results) ==
    limit_to(sort_by_relevance(unique_results(all_results)), max_results)

\* the two-argument cache calls of search_multiple (cache.get(key, "search")
\* at line 49, cache.set(key, value, prefix="search") at line 87):
\* CacheService.get and set take no such argument, so the call raises
\* TypeError; "miss" is the cache those calls were written for
namespaced_cache == {"miss", "raise"}

\* the calls a behaviour can start with: _deduplicate_and_rank on a list, or
\* search_multiple with what its provider tasks together returned, each
\* task at most max_results_per_query results
DeduplicateCalls ==
    {[op |-> "deduplicate_and_rank", queries |-> 0, max_results_per_query |-> 0,
      cache |-> "none", results |-> l, max_results |-> m, state |-> "called",
      final_results |-> <<>>] : l \in ResultLists, m \in 0..MaxInput}

SearchCalls ==
    {call \in
        {[op |-> "search_multiple", queries |-> nq, max_results_per_query |-> mx,
          cache |-> c, results |-> l, max_results |-> 0, state |-> "called",
          final_results |-> <<>>] :
            nq \in 0..MaxEnhanced, mx \in 1..MaxInput, c \in namespaced_cache,
            l \in ResultLists} :
        Len(call.results) <=
            Cardinality(Engines) * call.queries * call.max_results_per_query}

searchFixed ==
    <<pipelineVars, memory_cache, redis_store, redis_client, redis_enabled, now, last,
      auxVars>>

\* a direct call of _deduplicate_and_rank
DeduplicateAndRank ==
    /\ ranked.op = "deduplicate_and_rank" /\ ranked.state = "called"
    /\ ranked' = [ranked EXCEPT
                     !.state = "returned",
                     !.final_results = deduplicate_and_rank(ranked.results,
                                                            ranked.max_results)]
    /\ UNCHANGED searchFixed

\* search_multiple(queries, max_results_per_query): the cache is asked once
\* per query (line 49) and written once per query that got results (line
\* 87); any exception becomes SearchEngineException (lines 97-99); otherwise
\* line 90 ranks everything gathered with max_results_per_query * len(queries)
SearchMultiple ==
    /\ ranked.op = "search_multiple" /\ ranked.state = "called"
    /\ ranked' =
         IF ranked.queries > 0 /\ ranked.cache = "raise"
         THEN [ranked EXCEPT !.state = "SearchEngineException"]
         ELSE [ranked EXCEPT
                  !.state = "returned",
                  !.max_results = ranked.max_results_per_query * ranked.queries,
                  !.final_results =
                      deduplicate_and_rank(ranked.results,
                          ranked.max_results_per_query * ranked.queries)]
    /\ UNCHANGED searchFixed

SearchInit ==
    /\ PipelineInit /\ dailyStats = NoRow
    /\ CacheServiceInit
    /\ ranked \in DeduplicateCalls \cup SearchCalls
    /\ AuxInit

SearchNext ==
    \/ DeduplicateAndRank
    \/ SearchMultiple

SearchSpec == SearchInit /\ [][SearchNext]_vars

\* the position of the first result of all_results with this url
FirstWithUrl(all_results, u) ==
    CHOOSE i \in 1..Len(all_results) :
        /\ all_results[i].url = u
        /\ \A j \in 1..(i - 1) : all_results[j].url # u

\* C19: the list _deduplicate_and_rank returns holds no url twice, and each
\* result in it is the first result of the input list with that url.
C19_DedupFirstSeen ==
    (ranked.op = "deduplicate_and_rank" /\ ranked.state = "returned") =>
        LET out == ranked.final_results IN
        /\ \A i, j \in 1..Len(out) : out[i].url = out[j].url => i = j
        /\ \A i \in 1..Len(out) :
               /\ \E k \in 1..Len(ranked.results) : ranked.results[k].url = out[i].url
               /\ out[i] = ranked.results[FirstWithUrl(ranked.results, out[i].url)]

\* a url came twice, first with the lower score, and the lower-scored
\* result is the one returned
C19_Witness ==
    /\ ranked.op = "deduplicate_and_rank" /\ ranked.state = "returned"
    /\ \E i, j \in 1..Len(ranked.results) :
           /\ i < j
           /\ ranked.results[i].url = ranked.results[j].url
           /\ ranked.results[i].relevance_score < ranked.results[j].relevance_score
           /\ \E k \in 1..Len(ranked.final_results) :
                  ranked.final_results[k] = ranked.results[i]
           /\ \A k \in 1..Len(ranked.final_results) :
                  ranked.final_results[k] # ranked.results[j]

\* C20: the list search_multiple returns is in non-increasing order of
\* relevance_score and holds no more than max_results_per_query results.
C20_SortedAndTruncated ==
    (ranked.op = "search_multiple" /\ ranked.state = "returned") =>
        LET out == ranked.final_results IN
        /\ \A i, j \in 1..Len(out) :
               i < j => out[i].relevance_score >= out[j].relevance_score
        /\ Len(out) <= ranked.max_results_per_query


\* ================================================== search: provider fan-out
\* search_multiple seen one provider task at a time: one task per (query,
\* engine) pair, both API keys configured, run by asyncio.gather.
MaxProvider == 1

\* what a provider answers to one call: results with status 200, another
\* status, or an exception (connection error, timeout, bad JSON)
ProviderReplies ==
    {[kind |-> "ok", results |-> l] :
        l \in UNION {[1..n -> SearchResult] : n \in 0..MaxProvider}}
    \cup {[kind |-> k, results |-> <<>>] : k \in {"status", "exception"}}

\* _brave_search / _serpapi_search under _search_with_engine: the parsed
\* results on status 200, [] on any other status (lines 154-156, 201-206)
\* and [] on any exception (lines 158-160, 208-210, 110-112)
search_with_engine(reply) ==
    IF reply.kind = "ok" THEN reply.results ELSE <<>>

\* lines 58-63: one task per enabled engine for every query, in query order
new_tasks(queries) ==
    [i \in 1..(Cardinality(Engines) * queries) |->
        [engine |-> IF i % 2 = 1 THEN "brave" ELSE "serpapi",
         state |-> "pending", reply |-> [kind |-> "none", results |-> <<>>],
         returned |-> <<>>]]

RECURSIVE extend_all(_, _)
\* lines 71-81: all_results.extend(result) for each task's list, in task order
extend_all(tasks, i) ==
    IF i > Len(tasks) THEN <<>>
    ELSE tasks[i].returned \o extend_all(tasks, i + 1)

fanoutFixed ==
    <<pipelineVars, memory_cache, redis_store, redis_client, redis_enabled, now, last,
      ranked, fetching, analyzer, health, reqlog>>

\* search_multiple up to asyncio.gather: the cache is asked for every query
\* (line 49) before any task is created
SearchMultipleCall(queries, max_results_per_query, cache) ==
    /\ fanout.state # "running"
    /\ fanout' =
         IF queries > 0 /\ cache = "raise"
         THEN [NoFanout EXCEPT !.state = "SearchEngineException",
                               !.queries = queries,
                               !.max_results_per_query = max_results_per_query,
                               !.cache = cache]
         ELSE [NoFanout EXCEPT !.state = IF queries = 0 THEN "returned" ELSE "running",
                               !.queries = queries,
                               !.max_results_per_query = max_results_per_query,
                               !.cache = cache,
                               !.tasks = new_tasks(queries)]
    /\ UNCHANGED fanoutFixed

\* one provider task runs to its end
SearchWithEngine(i, reply) ==
    /\ fanout.state = "running"
    /\ i \in 1..Len(fanout.tasks)
    /\ fanout.tasks[i].state = "pending"
    /\ fanout' = [fanout EXCEPT !.tasks[i].state = "done",
                                !.tasks[i].reply = reply,
                                !.tasks[i].returned = search_with_engine(reply)]
    /\ UNCHANGED fanoutFixed

\* lines 67-95 once every task is over: collect, write the cache, rank
GatherAndRank ==
    /\ fanout.state = "running"
    /\ \A i \in 1..Len(fanout.tasks) : fanout.tasks[i].state = "done"
    /\ fanout' =
         [fanout EXCEPT
             !.state = "returned",
             !.all_results = extend_all(fanout.tasks, 1),
             !.final_results =
                 deduplicate_and_rank(extend_all(fanout.tasks, 1),
                     fanout.max_results_per_query * fanout.queries)]
    /\ UNCHANGED fanoutFixed

FanoutNext ==
    \/ \E queries \in 0..MaxEnhanced, mx \in 1..MaxInput, c \in namespaced_cache :
           SearchMultipleCall(queries, mx, c)
    \/ \E i \in 1..(Cardinality(Engines) * MaxEnhanced), reply \in ProviderReplies :
           SearchWithEngine(i, reply)
    \/ GatherAndRank

FanoutSpec == CacheInit /\ [][FanoutNext]_vars

\* C21: a search over at least one query returns; a provider call that
\* failed contributed an empty list, and every result of every call that
\* succeeded is among the results gathered for ranking.
C21_ProviderIsolation ==
    (fanout.state \notin {"idle", "running"} /\ fanout.queries > 0) =>
        /\ fanout.state = "returned"
        /\ \A i \in 1..Len(fanout.tasks) :
               /\ fanout.tasks[i].reply.kind # "ok" => fanout.tasks[i].returned = <<>>
               /\ \A k \in 1..Len(fanout.tasks[i].reply.results) :
                      fanout.tasks[i].reply.kind = "ok" =>
                          \E j \in 1..Len(fanout.all_results) :
                              fanout.all_results[j] = fanout.tasks[i].reply.results[k]


\* ========================================================= content fetcher
\* ZenRowsContentFetcher.fetch_content: one _fetch_single_content task per
\* URL, run by asyncio.gather.  The search results are the aggregator's, so
\* their urls are distinct; result i has url i.
UrlLists == {[i \in 1..n |-> i] : n \in 0..MaxInput}

\* what one URL does to the fetch chain: whether the proxy fetch and the
\* direct fetch give a page, and whether trafilatura and the BeautifulSoup
\* fallback get text out of it
SiteBehaviours ==
    [zenrows : BOOLEAN, direct : BOOLEAN, trafilatura : BOOLEAN,
     beautifulsoup : BOOLEAN]

\* lines 89-95: ZenRows first, the direct fetch when it gave nothing
page_fetched(site) == site.zenrows \/ site.direct

\* lines 98-109: trafilatura first, BeautifulSoup when it gave nothing
text_extracted(site) == site.trafilatura \/ site.beautifulsoup

\* _fetch_single_content(search_result): the ContentData, or None.  The
\* cache is asked first (line 80) and written last (line 132); an exception
\* anywhere is caught and gives None (lines 137-139)
fetch_single_content(url, site, cache) ==
    IF cache = "raise" THEN <<>>
    ELSE IF ~page_fetched(site) THEN <<>>
    ELSE IF ~text_extracted(site) THEN <<>>
    ELSE <<[url |-> url]>>

\* line 45: search_results[:max_urls]
urls_to_fetch(search_results, max_urls) ==
    SubSeq(search_results, 1, Min(Len(search_results), max_urls))

RECURSIVE collect_content(_, _)
\* lines 57-62: the ContentData among the gathered results, in task order
collect_content(tasks, i) ==
    IF i > Len(tasks) THEN <<>>
    ELSE tasks[i].returned \o collect_content(tasks, i + 1)

fetchFixed ==
    <<pipelineVars, memory_cache, redis_store, redis_client, redis_enabled, now, last,
      ranked, fanout, analyzer, health, reqlog>>

\* fetch_content up to asyncio.gather
FetchContentCall(search_results, max_urls, cache) ==
    /\ fetching.state # "running"
    /\ fetching' =
         [NoFetch EXCEPT
             !.state = IF search_results = <<>> THEN "returned" ELSE "running",
             !.search_results = search_results,
             !.max_urls = max_urls,
             !.cache = cache,
             !.tasks = [i \in 1..Len(urls_to_fetch(search_results, max_urls)) |->
                           [url |-> urls_to_fetch(search_results, max_urls)[i],
                            state |-> "pending",
                            site |-> [zenrows |-> FALSE, direct |-> FALSE,
                                      trafilatura |-> FALSE, beautifulsoup |-> FALSE],
                            returned |-> <<>>]]]
    /\ UNCHANGED <<fetchFixed>>

\* one URL's task runs to its end
FetchSingleContent(i, site) ==
    /\ fetching.state = "running"
    /\ i \in 1..Len(fetching.tasks)
    /\ fetching.tasks[i].state = "pending"
    /\ fetching' =
         [fetching EXCEPT
             !.tasks[i].state = "done",
             !.tasks[i].site = site,
             !.tasks[i].returned =
                 fetch_single_content(fetching.tasks[i].url, site, fetching.cache)]
    /\ UNCHANGED <<fetchFixed>>

\* lines 54-67 once every task is over
GatherContent ==
    /\ fetching.state = "running"
    /\ \A i \in 1..Len(fetching.tasks) : fetching.tasks[i].state = "done"
    /\ fetching' = [fetching EXCEPT !.state = "returned",
                                    !.content_data = collect_content(fetching.tasks, 1)]
    /\ UNCHANGED <<fetchFixed>>

FetchNext ==
    \/ \E l \in UrlLists, max_urls \in 1..MaxInput, c \in namespaced_cache :
           FetchContentCall(l, max_urls, c)
    \/ \E i \in 1..MaxInput, site \in SiteBehaviours : FetchSingleContent(i, site)
    \/ GatherContent

FetchSpec == CacheInit /\ [][FetchNext]_vars

\* C22: fetch_content attempts the first max_urls results and no other,
\* returns at most max_urls records, none for a URL whose fetch or
\* extraction failed, and exactly one for every attempted URL whose fetch
\* and extraction succeeded.
C22_FetchBounded ==
    (fetching.state = "returned" /\ fetching.search_results # <<>>) =>
        LET out == fetching.content_data
            records(u) == {k \in 1..Len(out) : out[k].url = u}
        IN
        /\ Len(fetching.tasks) = Min(Len(fetching.search_results), fetching.max_urls)
        /\ \A i \in 1..Len(fetching.tasks) :
               fetching.tasks[i].url = fetching.search_results[i]
        /\ Len(out) <= fetching.max_urls
        /\ \A i \in 1..Len(fetching.tasks) :
               LET t == fetching.tasks[i] IN
               IF page_fetched(t.site) /\ text_extracted(t.site)
               THEN Cardinality(records(t.url)) = 1
               ELSE records(t.url) = {}


\* ============================================================ LLM analyzer
\* LLMAnalysisService.analyze.  Time is in units of 30 s; confidence in
\* tenths; text is measured by its length in characters.
MaxRecords == 6
MaxClock == 3

availability_cache_duration == 2
force_check_after == 1
max_retries == 2
TopSources == 5
summary_confidence == 7
fallback_confidence == 1
base_score == 8
PreambleLen == 37
NoteLen == 88
PartLen == 7
UnprocessedLen == 120
ApologyLen == 164

\* what POST /api/generate gives one attempt: a response text of some
\* length after strip() (0: empty or blank), or an error (status other
\* than 200, bad JSON, client error, timeout, no session)
GenerateReplies ==
    {[kind |-> "text", length |-> n] : n \in {0, 30, 120, 250}}
    \cup {[kind |-> "error", length |-> 0]}

\* a retry loop that takes whatever came back with status 200
any_text_accepted(reply) == reply.kind = "text"

\* _call_ollama_with_retry, line 224: `result and len(result.strip()) > 0`
response_accepted(reply) == reply.kind = "text" /\ reply.length > 0

\* _calculate_confidence_score(answer, content_data)
calculate_confidence_score(length, records) ==
    LET by_content == IF records >= 3 THEN base_score + 1
                      ELSE IF records = 1 THEN base_score - 2
                      ELSE base_score
        by_answer == IF length > 200 THEN by_content + 1
                     ELSE IF length < 50 THEN by_content - 2
                     ELSE by_content
    IN Min(IF by_answer > 1 THEN by_answer ELSE 1, 10)

\* a summary that lists every record
every_source(records) == [i \in 1..records |-> i]

\* _create_simple_summary_response, line 330: content_data[:5]
summary_sources(records) == [i \in 1..Min(records, TopSources) |-> i]

\* _create_simple_summary_response(query, content_data): one numbered part
\* for each of the first five records that has a title or text
create_simple_summary_response(records, with_text) ==
    LET parts == IF with_text THEN Min(records, TopSources) ELSE 0 IN
    [answer |-> IF parts > 0 THEN "summary" ELSE "unprocessed",
     length |-> IF parts > 0 THEN PreambleLen + parts * PartLen + NoteLen
                ELSE UnprocessedLen,
     sources |-> summary_sources(records),
     confidence |-> summary_confidence]

\* _create_fallback_response(query, reason)
create_fallback_response ==
    [answer |-> "apology", length |-> ApologyLen, sources |-> <<>>,
     confidence |-> fallback_confidence]

\* lines 179-199: the response built from an accepted inference result
llm_response(length, records) ==
    [answer |-> "llm", length |-> length, sources |-> [i \in 1..records |-> i],
     confidence |-> calculate_confidence_score(length, records)]

\* line 157: force_check
force_check(a) ==
    a.last_failed_time >= 0 /\ (a.clock - a.last_failed_time) > force_check_after

\* _check_ollama_availability, lines 65-69: the cached answer is used
use_cached(a) ==
    /\ ~force_check(a)
    /\ a.is_available # "None"
    /\ (a.clock - a.last_availability_check) < availability_cache_duration

\* analyze that calls the model whatever the probe said
generate_anyway(available) == "generate"

\* lines 158-160: what follows the availability check
after_probe(available) == IF available THEN "generate" ELSE "returned"

\* a loop that goes round once more than range(max_retries + 1)
one_more_attempt(attempt) == attempt > max_retries

\* `for attempt in range(max_retries + 1)`: the attempt just made, the
\* (attempt + 1)-th, was the last one
last_attempt(attempt) == attempt + 1 > max_retries

analyzerFixed ==
    <<pipelineVars, memory_cache, redis_store, redis_client, redis_enabled, now, last,
      ranked, fanout, fetching, health, reqlog>>

\* analyze(query, content_data, request_id) up to the first inference call.
\* server: whether the version and model-list endpoints answer with 200;
\* session: whether _get_session can build its ClientSession; internal: an
\* exception while the content and the prompt are prepared
AnalyzeCall(records, with_text, server, session, internal) ==
    /\ analyzer.pc \in {"idle", "returned"}
    /\ LET a == [analyzer EXCEPT !.content_data = records, !.with_text = with_text,
                                 !.attempt = 0, !.response = NoAnalysis,
                                 !.reply = [kind |-> "none", length |-> 0],
                                 !.probe = "none", !.available = FALSE]
           cached == use_cached(analyzer)
           avail == IF cached THEN analyzer.is_available = "True"
                    ELSE session = "created" /\ server = "up"
           probed == IF cached THEN a
                     ELSE [a EXCEPT !.is_available = IF avail THEN "True" ELSE "False",
                                    !.last_availability_check = analyzer.clock]
       IN analyzer' =
            IF records = 0
            THEN [a EXCEPT !.pc = "returned", !.response = create_fallback_response]
            ELSE IF after_probe(avail) = "returned"
            THEN [probed EXCEPT
                     !.pc = "returned",
                     !.probe = IF cached THEN "cached" ELSE "fresh",
                     !.available = avail,
                     !.response = create_simple_summary_response(records, with_text)]
            ELSE IF internal = "raise"
            THEN [probed EXCEPT
                     !.pc = "returned",
                     !.probe = IF cached THEN "cached" ELSE "fresh",
                     !.available = avail,
                     !.last_failed_time = analyzer.clock,
                     !.response = create_simple_summary_response(records, with_text)]
            ELSE [probed EXCEPT
                     !.pc = "generate",
                     !.probe = IF cached THEN "cached" ELSE "fresh",
                     !.available = avail]
    /\ UNCHANGED analyzerFixed

\* one attempt of _call_ollama_with_retry and, when it is the last one or
\* its result is accepted, the rest of analyze
CallOllama(reply) ==
    /\ analyzer.pc = "generate"
    /\ analyzer' =
         IF response_accepted(reply)
         THEN [analyzer EXCEPT
                  !.attempt = @ + 1,
                  !.reply = reply,
                  !.pc = "returned",
                  !.response = llm_response(reply.length, analyzer.content_data)]
         ELSE IF last_attempt(analyzer.attempt)
         THEN [analyzer EXCEPT
                  !.attempt = @ + 1,
                  !.reply = reply,
                  !.pc = "returned",
                  !.is_available = "False",
                  !.last_availability_check = analyzer.clock,
                  !.last_failed_time = analyzer.clock,
                  !.response = create_simple_summary_response(analyzer.content_data,
                                                              analyzer.with_text)]
         ELSE [analyzer EXCEPT !.attempt = @ + 1, !.reply = reply]
    /\ UNCHANGED analyzerFixed

\* thirty seconds pass
AnalyzerTick ==
    /\ analyzer.clock < MaxClock
    /\ analyzer' = [analyzer EXCEPT !.clock = @ + 1]
    /\ UNCHANGED analyzerFixed

AnalyzeNext ==
    \/ \E records \in 0..MaxRecords, with_text \in BOOLEAN, server \in {"up", "down"},
          session \in {"created", "raise"}, internal \in {"none", "raise"} :
           AnalyzeCall(records, with_text, server, session, internal)
    \/ \E reply \in GenerateReplies : CallOllama(reply)
    \/ AnalyzerTick

AnalyzeSpec == CacheInit /\ [][AnalyzeNext]_vars


C24_FallbackSources ==
    (/\ analyzer.pc = "returned" /\ analyzer.content_data > 0
     /\ analyzer.probe # "none" /\ ~analyzer.available) =>
        /\ analyzer.response.sources = every_source(analyzer.content_data)
        /\ analyzer.response.confidence >= 6
        /\ analyzer.response.confidence <= 7

\* C25: the response of a successful inference call has a confidence
\* strictly above the one the fallback summary carries.
C25_FallbackLowerConfidence ==
    (analyzer.pc = "returned" /\ analyzer.response.answer = "llm") =>
        summary_confidence < analyzer.response.confidence

\* C31: one analyze call makes at most max_retries + 1 inference calls; a
\* non-empty response ends the attempts and becomes the answer, an empty
\* response or an error is a failed attempt that is retried, and the last
\* failed attempt ends the loop with the server marked unavailable and the
\* summary returned.
C31_BoundedRetry ==
    /\ analyzer.attempt <= max_retries + 1
    /\ analyzer.attempt > 0 =>
          LET nonempty == analyzer.reply.kind = "text" /\ analyzer.reply.length > 0
          IN  /\ nonempty =>
                    /\ analyzer.pc = "returned"
                    /\ analyzer.response.answer = "llm"
                    /\ analyzer.response.length = analyzer.reply.length
              /\ (~nonempty /\ analyzer.attempt <= max_retries) =>
                    analyzer.pc = "generate"
              /\ (~nonempty /\ analyzer.attempt = max_retries + 1) =>
                    /\ analyzer.pc = "returned"
                    /\ analyzer.is_available = "False"
                    /\ analyzer.response =
                           create_simple_summary_response(analyzer.content_data,
                                                          analyzer.with_text)

\* three attempts, the third answered with an empty text, and the summary
\* returned with the server marked unavailable
C31_Witness ==
    /\ analyzer.pc = "returned" /\ analyzer.attempt = max_retries + 1
    /\ analyzer.reply = [kind |-> "text", length |-> 0]
    /\ analyzer.is_available = "False"
    /\ analyzer.response.answer = "summary"

\* C32: an analyze call made less than 60 seconds after the last probe uses
\* the cached availability and does not probe, the one exception being the
\* forced re-probe after the cooldown that follows a failure; once that
\* re-probe has been made, calls use the cached result again.
C32_AvailabilityCached ==
    [][(/\ analyzer.pc \in {"idle", "returned"}
        /\ analyzer'.clock = analyzer.clock
        /\ analyzer'.probe # "none"
        /\ analyzer.is_available # "None"
        /\ analyzer.clock - analyzer.last_availability_check
               < availability_cache_duration)
       => \/ analyzer'.probe = "cached"
          \/ /\ force_check(analyzer)
             /\ analyzer.last_availability_check <= analyzer.last_failed_time]_vars

\* C30: when the availability check, fresh or cached, says unavailable,
\* analyze returns the summary and no generate call has been made.
C30_NoInferenceWhenUnavailable ==
    (/\ analyzer.pc \in {"generate", "returned"} /\ analyzer.content_data > 0
     /\ analyzer.probe # "none" /\ ~analyzer.available) =>
        /\ analyzer.pc = "returned"
        /\ analyzer.attempt = 0
        /\ analyzer.response.answer \in {"summary", "unprocessed"}

\* unavailable by the cached answer of an earlier probe
C30_Witness ==
    /\ analyzer.pc = "returned" /\ analyzer.content_data > 0
    /\ analyzer.probe = "cached" /\ ~analyzer.available
    /\ analyzer.attempt = 0 /\ analyzer.response.answer = "summary"


\* ============================================================ health check
\* SearchPipeline.health_check: the six probes run under asyncio.gather.
MaxHealthClock == 4

Database == Len(Components)

\* the probes run through _check_component_health (wait_for, 5 s): all but
\* the database probe
Bounded == 1..(Database - 1)

\* what a probe answers when it answers: the health_check of the component
\* (an exception in it is turned into "unhealthy"), or _check_database_health
ProbeAnswers(i) ==
    IF Components[i] = "llm_analyzer"
    THEN {"healthy", "unhealthy - ollama not available"}
    ELSE IF Components[i] \in {"cache", "database"}
    THEN {"healthy", "unhealthy"}
    ELSE {"healthy", "degraded", "unhealthy"}

\* line 300: the components counted as down
unhealthy_components(checks) ==
    {i \in 1..Len(checks) : checks[i] \notin {"healthy", "degraded"}}

\* an aggregation that allows no component to be down
no_allowance(down) == IF down = 0 THEN "healthy" ELSE "unhealthy"

\* lines 302-310
overall_status(down) ==
    IF down = 0 THEN "healthy"
    ELSE IF down <= 1 THEN "degraded"
    ELSE "unhealthy"

healthFixed ==
    <<pipelineVars, memory_cache, redis_store, redis_client, redis_enabled, now, last,
      ranked, fanout, fetching, analyzer, reqlog>>

\* health_check up to asyncio.gather: the cached answer (lines 266-270), or
\* the six probes are started
HealthCheckCall ==
    /\ health.pc \in {"idle", "done"}
    /\ health' =
         IF health.clock - health.last_health_check < health_cache_window
         THEN [health EXCEPT
                  !.pc = "done",
                  !.current_time = health.clock,
                  !.result = [overall |-> IF health.is_healthy THEN "healthy"
                                          ELSE "unhealthy",
                              cached |-> TRUE]]
         ELSE [health EXCEPT
                  !.pc = "probing",
                  !.current_time = health.clock,
                  !.checks = [i \in 1..Len(Components) |-> "pending"],
                  !.result = [overall |-> "none", cached |-> FALSE]]
    /\ UNCHANGED healthFixed

\* a probe answers
ProbeAnswer(i, status) ==
    /\ health.pc = "probing"
    /\ health.checks[i] = "pending"
    /\ status \in ProbeAnswers(i)
    /\ health' = [health EXCEPT !.checks[i] = status]
    /\ UNCHANGED healthFixed

\* _check_component_health, lines 335-338: wait_for gives up on the probe
ProbeTimeout(i) ==
    /\ health.pc = "probing"
    /\ i \in Bounded
    /\ health.checks[i] = "pending"
    /\ health' = [health EXCEPT !.checks[i] = "timeout"]
    /\ UNCHANGED healthFixed

\* lines 289-314, once gather has every result
GatherHealth ==
    /\ health.pc = "probing"
    /\ \A i \in 1..Len(Components) : health.checks[i] # "pending"
    /\ LET overall == overall_status(Cardinality(unhealthy_components(health.checks)))
       IN health' = [health EXCEPT
                        !.pc = "done",
                        !.is_healthy = (overall # "unhealthy"),
                        !.last_health_check = health.current_time,
                        !.result = [overall |-> overall, cached |-> FALSE],
                        !.round = overall]
    /\ UNCHANGED healthFixed

\* fifteen seconds pass
HealthTick ==
    /\ health.clock < MaxHealthClock
    /\ health' = [health EXCEPT !.clock = @ + 1]
    /\ UNCHANGED healthFixed

HealthNext ==
    \/ HealthCheckCall
    \/ \E i \in 1..Len(Components) :
           \E status \in {"healthy", "degraded", "unhealthy",
                          "unhealthy - ollama not available"} : ProbeAnswer(i, status)
    \/ \E i \in Bounded : ProbeTimeout(i)
    \/ GatherHealth
    \/ HealthTick

HealthSpec == CacheInit /\ [][HealthNext]_vars

\* the event loop runs what is ready: a due wait_for timeout fires and a
\* finished gather resumes health_check; nothing makes a probe answer
HealthLiveSpec ==
    /\ HealthSpec
    /\ \A i \in Bounded :
           WF_vars(ProbeTimeout(i) \/ \E status \in ProbeAnswers(i) : ProbeAnswer(i, status))
    /\ WF_vars(GatherHealth)


\* the component statuses that stand for a component being down
DownStatuses == {"unhealthy", "timeout", "unhealthy - ollama not available"}

C27_CachedSameOverall ==
    (health.pc = "done" /\ health.result.cached) =>
        health.result.overall = health.round

\* C28: a health_check that started its probes comes to an end.
C28_HealthTerminates ==
    (health.pc = "probing") ~> (health.pc = "done")


\* ---------------------------------------------------------------------------
\* Request logging: DatabaseLogger and SearchRequestRepository
\* (services/database_logger.py, database/repositories.py)
\* ---------------------------------------------------------------------------

\* SearchRequestRepository.get_search_request_by_id: the row whose request_id
\* matches, None ("absent") when there is none; a row is kept as its
\* original_query
get_search_request_by_id(table, request_id) == table[request_id]

\* SearchRequestRepository.create_search_request: add and flush; request_id is
\* a unique column, so a second row for the same id fails at the flush
create_search_request(table, request_id, original_query) ==
    IF table[request_id] # "absent"
    THEN [search_requests |-> table, returned |-> "IntegrityError"]
    ELSE [search_requests |-> [table EXCEPT ![request_id] = original_query],
          returned |-> "SearchRequest"]

\* DatabaseLogger.log_search_request: a debug line and `return None`; the
\* session is not touched, and original_query lands in **kwargs
log_search_request(table, request_id, original_query) ==
    [search_requests |-> table, returned |-> "None"]

loggerFixed ==
    <<pipelineVars, memory_cache, redis_store, redis_client, redis_enabled, now, last,
      ranked, fanout, fetching, analyzer, health>>

\* db_logger.log_search_request(request_id=..., original_query=...)
LogSearchRequest(request_id, original_query) ==
    LET out == log_search_request(reqlog.search_requests, request_id, original_query)
    IN  /\ reqlog' = [search_requests |-> out.search_requests,
                      call |-> [op |-> "log_search_request", request_id |-> request_id,
                                original_query |-> original_query,
                                returned |-> out.returned]]
        /\ UNCHANGED loggerFixed

\* search_repo.create_search_request(request_id, None, original_query)
CreateSearchRequest(request_id, original_query) ==
    LET out == create_search_request(reqlog.search_requests, request_id, original_query)
    IN  /\ reqlog' = [search_requests |-> out.search_requests,
                      call |-> [op |-> "create_search_request", request_id |-> request_id,
                                original_query |-> original_query,
                                returned |-> out.returned]]
        /\ UNCHANGED loggerFixed

\* search_repo.get_search_request_by_id(request_id)
GetSearchRequestById(request_id) ==
    /\ reqlog' = [reqlog EXCEPT !.call =
                      [op |-> "get_search_request_by_id", request_id |-> request_id,
                       original_query |-> "",
                       returned |-> get_search_request_by_id(reqlog.search_requests,
                                                             request_id)]]
    /\ UNCHANGED loggerFixed

LoggerNext ==
    \/ \E request_id \in RequestIds, original_query \in LoggedQueries :
           LogSearchRequest(request_id, original_query)
    \/ \E request_id \in RequestIds, original_query \in LoggedQueries :
           CreateSearchRequest(request_id, original_query)
    \/ \E request_id \in RequestIds : GetSearchRequestById(request_id)

LoggerSpec == CacheInit /\ [][LoggerNext]_vars

\* C29: once log_search_request(request_id, ...) has completed it has returned
\* an identifier that is not None, and get_search_request_by_id(request_id)
\* finds the logged request with the same original query.
C29_LoggedRequestFound ==
    reqlog.call.op = "log_search_request" =>
        /\ reqlog.call.returned # "None"
        /\ get_search_request_by_id(reqlog.search_requests, reqlog.call.request_id)
               = reqlog.call.original_query


\* ---------------------------------------------------------------------------
\* Cleaning of extracted text: ZenRowsContentFetcher._clean_content
\* (services/content_fetcher.py)
\* ---------------------------------------------------------------------------

\* settings.MAX_CONTENT_LENGTH
max_content_length == 5000
\* len("...")
EllipsisLen == 3

MaxSegments == 3

\* an extracted text as its runs: ordinary text, a run of whitespace, or a
\* banner phrase with what follows it up to the next full stop; no two
\* neighbouring runs are of the same kind
ExtractedTexts ==
    {c \in UNION {[1..n -> [kind : {"text", "space", "banner"},
                            n : {1, 2, 2499, max_content_length}]] : n \in 1..MaxSegments} :
        \A i \in 1..(Len(c) - 1) : c[i].kind # c[i + 1].kind}

\* len(content)
content_length(extracted) ==
    LET RECURSIVE upto(_)
        upto(i) == IF i = 0 THEN 0 ELSE upto(i - 1) + extracted[i].n
    IN  upto(Len(extracted))

\* _clean_content: the length of what it returns. Whitespace runs become one
\* blank each, banner runs are removed, a text over the maximum becomes
\* `content[:self.max_content_length] + "..."`, and strip() takes the blanks
\* off both ends.
clean_content(extracted) ==
    LET spaced == [i \in 1..Len(extracted) |->
                     IF extracted[i].kind = "space"
                     THEN [kind |-> "space", n |-> 1] ELSE extracted[i]]
        kept == SelectSeq(spaced, LAMBDA s : s.kind # "banner")
        len == content_length(kept)
        leading == Cardinality({i \in 1..Len(kept) :
                                  \A j \in 1..i : kept[j].kind = "space"})
        trailing == Cardinality({i \in 1..Len(kept) :
                                   \A j \in i..Len(kept) : kept[j].kind = "space"})
    IN  IF leading = Len(kept) THEN 0
        ELSE IF len > max_content_length
             THEN max_content_length + EllipsisLen - leading
        ELSE len - leading - trailing

\* cleaned_content = self._clean_content(extracted_content)
CleanContent(extracted) ==
    /\ fetching' = [state |-> "cleaned", content |-> extracted,
                    cleaned |-> clean_content(extracted)]
    /\ UNCHANGED fetchFixed

CleanSpec ==
    CacheInit /\ [][\E extracted \in ExtractedTexts : CleanContent(extracted)]_vars

\* C33: the text of a ContentRecord is never longer than the configured
\* maximum content length.
C33_TextWithinMaximum ==
    fetching.state = "cleaned" => fetching.cleaned <= max_content_length


\* ---------------------------------------------------------------------------
\* search_multiple over a batch of queries some of which are in the search
\* cache, with either API key configured or not, followed by the pipeline's
\* search charges (services/search_engine.py, core/pipeline.py)
\* ---------------------------------------------------------------------------

\* the engines whose API key is set, in the order of self.search_engines
KeySettings == {<<>>, <<"brave">>, <<"serpapi">>, <<"brave", "serpapi">>}

\* lines 46-63: the tasks created, in creation order; a query found in the
\* cache gets none, every other query one per configured engine
batch_tasks(queries, hits, keys) ==
    LET RECURSIVE from(_)
        from(q) ==
            IF q > queries THEN <<>>
            ELSE (IF q \in hits THEN <<>>
                  ELSE [e \in 1..Len(keys) |-> [query |-> q, engine |-> keys[e]]])
                 \o from(q + 1)
    IN  from(1)

\* lines 72-73: the query the i-th gathered result is filed under,
\* `query_idx = i // <configured engines>` with i counted from 0
query_of_result(i, queries, keys) ==
    LET query_idx == (i - 1) \div Len(keys)
    IN  IF query_idx < queries THEN query_idx + 1 ELSE 1

\* lines 69-87: for every query, the queries whose provider calls produced
\* the results written under that query's cache key
cached_lists(tasks, replies, queries, keys) ==
    [q \in 1..queries |->
        {tasks[i].query : i \in {j \in 1..Len(tasks) :
                                   /\ query_of_result(j, queries, keys) = q
                                   /\ replies[j] = "results"}}]

\* the whole of search_multiple(queries): `cache` is how the namespaced
\* cache calls end, `hits` the queries found in the cache when they return
SearchBatch(queries, hits, keys, replies, cache) ==
    /\ fanout' =
         IF queries > 0 /\ cache = "raise"
         THEN [state |-> "SearchEngineException", queries |-> queries, hits |-> hits,
               keys |-> keys, tasks |-> <<>>, cached |-> <<>>,
               tracked |-> [brave |-> 0, serpapi |-> 0]]
         ELSE [state |-> "searched", queries |-> queries, hits |-> hits,
               keys |-> keys, tasks |-> batch_tasks(queries, hits, keys),
               cached |-> cached_lists(batch_tasks(queries, hits, keys), replies,
                                       queries, keys),
               tracked |-> [brave |-> 0, serpapi |-> 0]]
    /\ UNCHANGED fanoutFixed

\* pipeline.py lines 110-112, reached when search_multiple has returned
TrackSearchCosts ==
    /\ fanout.state = "searched"
    /\ fanout' =
         [fanout EXCEPT
             !.state = "tracked",
             !.tracked = [brave |-> search_count([q \in 1..fanout.queries |-> q]),
                          serpapi |-> search_count([q \in 1..fanout.queries |-> q])]]
    /\ UNCHANGED fanoutFixed

BatchNext ==
    \/ \E queries \in 0..MaxEnhanced, keys \in KeySettings, cache \in namespaced_cache,
          replies \in [1..(2 * MaxEnhanced) -> {"results", "empty"}] :
           \E hits \in SUBSET (1..queries) :
               SearchBatch(queries, hits, keys, replies, cache)
    \/ TrackSearchCosts

BatchSpec == CacheInit /\ [][BatchNext]_vars

\* the calls issued to one provider during the search
Issued(engine) ==
    Cardinality({i \in 1..Len(fanout.tasks) : fanout.tasks[i].engine = engine})

\* C34: the search units tracked for a provider are the calls issued to that
\* provider during the request: none for a provider without a key, none for
\* a query answered from the search cache.
C34_ChargedPerCall ==
    fanout.state = "tracked" =>
        /\ fanout.tracked.brave = Issued("brave")
        /\ fanout.tracked.serpapi = Issued("serpapi")

\* C36: what is written to the search cache under a query's key are results
\* of provider calls made for that query, also when other queries of the
\* batch were found in the cache.
C36_CacheAttribution ==
    fanout.state \in {"searched", "tracked"} =>
        \A q \in 1..fanout.queries : fanout.cached[q] \subseteq {q}


\* ---------------------------------------------------------------------------
\* The retry loops of concurrent requests on the one LLMAnalysisService the
\* pipeline holds, and its one ClientSession (services/llm_analyzer.py)
\* ---------------------------------------------------------------------------

\* one attempt of request r's _call_ollama_with_retry up to the POST: a retry
\* first calls _get_session(force_new=True), which closes the session in use
\* and creates another; _call_ollama then takes self.session, creating it if
\* there is none, and posts on it
PostGenerate(r) ==
    LET me == analyzer.inference[r]
        retry == me.attempt > 0
        session == IF retry \/ analyzer.session = 0
                   THEN analyzer.session + 1 ELSE analyzer.session
    IN  /\ me.pc \in {"idle", "retry"}
        /\ analyzer' = [analyzer EXCEPT
                           !.session = session,
                           !.inference[r].pc = "posting",
                           !.inference[r].using = session]
        /\ UNCHANGED analyzerFixed

\* the POST of request r comes back: with what the server answered, or, when
\* the session it was made on has been closed meanwhile, with the client
\* error of a closed connection (the answer may also have arrived before)
GenerateReturns(r, reply) ==
    LET me == analyzer.inference[r]
        failed == [me EXCEPT !.attempt = @ + 1,
                             !.pc = IF last_attempt(me.attempt) THEN "failed"
                                    ELSE "retry"]
    IN  /\ me.pc = "posting"
        /\ reply.kind = "closed" => me.using # analyzer.session
        /\ analyzer' =
             [analyzer EXCEPT !.inference[r] =
                 IF reply.kind = "closed"
                 THEN [failed EXCEPT !.closed_under = @ + 1]
                 ELSE IF response_accepted(reply)
                 THEN [me EXCEPT !.attempt = @ + 1, !.pc = "answered"]
                 ELSE failed]
        /\ UNCHANGED analyzerFixed

SessionNext ==
    \/ \E r \in Reqs : PostGenerate(r)
    \/ \E r \in Reqs,
          reply \in GenerateReplies \cup {[kind |-> "closed", length |-> 0]} :
           GenerateReturns(r, reply)

SessionSpec == CacheInit /\ [][SessionNext]_vars

\* C37: a retry of one request, which closes and recreates the shared
\* session, never makes an inference call of another request that is in
\* flight fail or count as a failed attempt.
C37_RetryLeavesOthersAlone ==
    \A r \in Reqs : analyzer.inference[r].closed_under = 0

====
